---- MODULE Spec2Model ----
(***************************************************************************)
(* Request pipeline and service lifecycle of the Jackettio addon server    *)
(* (src/src/index.js): the express-rate-limit middleware mounted globally  *)
(* and on the stream route, the stream and download handlers, the LokiJS   *)
(* stream store with its throttled saves, and startServer with its signal  *)
(* and uncaught-exception handling; and execCommandWithRetry of the setup   *)
(* script that installs the addon and spawns the server.                   *)
(***************************************************************************)
EXTENDS Integers, Sequences, FiniteSets, TLC

\* ------------------------------------------------------------------ bounds
MaxReq == 1          \* request slots that can be in flight at once
MaxArrivals == 2     \* requests accepted in one behaviour
MaxLimit == 2        \* config.rateLimitRequest ranges over 1..MaxLimit
MaxStreams == 2      \* longest list getStreams resolves
MaxSignals == 2      \* termination signals delivered in one behaviour
MaxFaults == 1       \* uncaught exceptions raised in one behaviour
MaxUrlPart == 11     \* longest pathname and query string of a resolved URL
MaxRetries == 3      \* largest retries argument passed to execCommandWithRetry

ReqIds == 1..MaxReq
ConnIps == {"ipA"}              \* connection addresses (req.ip)
NoHeader == "none"              \* CF-Connecting-IP absent
Forwarded == {"ipB"}            \* values of the CF-Connecting-IP header
Keys == ConnIps \cup Forwarded  \* what keyGenerator can return
Undefined == "undefined"
Synthetic == "rateLimited"      \* the limiter's synthetic stream entry
StreamPath == "/:userConfig/stream/:type/:id.json"
Routes == {"stream", "download", "other"}
Methods == {"GET", "HEAD", "POST"}
Blobs == {"valid", "malformed"} \* req.params.userConfig: base64 JSON or not
\* the routes with handlers that wait or decode, beside those of Routes
AllRoutes == Routes \cup {"manifest", "icon", "configure"}
\* req.params.userConfig by what it decodes to: "valid" a JSON mapping,
\* "immutable" a mapping that sets a key of config.immulatableUserConfigKeys,
\* "noProvider" a mapping that names no known debrid, "scalar" JSON that is no
\* mapping (a number, a string, an array), "null" the JSON null, "malformed" no
\* JSON, "absent" the optional parameter left out
ConfigBlobs == Blobs \cup {"immutable", "noProvider", "scalar", "null", "absent"}
\* characters kept by cut at each end of a value
CutKeep == 5
\* default of the retries parameter of execCommandWithRetry
DefaultRetries == 5
JobTimers == {"cleanTorrentFolder", "vacuumCache", "cleanCache"}
\* the jobs startServer runs: icon.download() once, the three others on timers
JobNames == {"icon"} \cup JobTimers
\* the jobs of lib/cache.js
CacheJobs == {"vacuumCache", "cleanCache"}

\* the lists getStreams can resolve: n streams, named by their rank in the list
StreamLists == {[i \in 1..n |-> i] : n \in 0..MaxStreams}

\* debrid.ERROR members switched on by the download handler
DebridErrors ==
  {"NOT_READY", "EXPIRED_API_KEY", "NOT_PREMIUM", "ACCESS_DENIED", "TWO_FACTOR_AUTH"}

VARIABLES
  maxHits,        \* config.rateLimitRequest (limiter max)
  hits,           \* limiter store: key -> hits in the key's current window
  admitted,       \* history: key -> requests admitted in the key's current window
  req,            \* request slot -> the request in flight
  last,           \* history: the exchange the last step ended, with its response
  arrivals,       \* number of requests accepted so far
  dbLoaded,       \* the autoload callback has run: collection "streams" exists
  collection,     \* in-memory "streams" collection (inserted documents, in order)
  dirty,          \* LokiJS autosave dirty flag of the collection
  disk,           \* documents in the last database file written
  savePending,    \* LokiJS throttledSavePending: a save is being written
  saveSnapshot,   \* the serialized database of the save being written
  saveCbs,        \* callbacks waiting for the save being written
  throttledCbs,   \* LokiJS throttledCallbacks: callbacks queued for the next save
  timeouts,       \* save callbacks scheduled by setTimeout(cb, 1)
  useLocalTunnel, \* config.useLocalTunnel
  srv,            \* position of startServer's listen callback ("off": server not spawned yet)
  listening,      \* the HTTP server accepts new connections
  handlers,       \* SIGINT/SIGTERM handlers are registered
  intervals,      \* recurring job timers still set
  closing,        \* server.close(cb) called, its callback not yet run
  exit,           \* "none" while running, else how the process ended
  signals,        \* number of termination signals delivered
  faults,         \* number of uncaught exceptions raised
  drainLog,       \* history: the drain steps in the order they happened
  drainFrom,      \* history: the collection when closeGracefully first ran
  jobs,           \* job -> state of the job's run ("idle", "waiting", "running")
  stale,          \* number of documents of the collection older than the retention horizon
  acked,          \* history: the documents whose insert returned, in order
  setup           \* the setup script's call of execCommandWithRetry

httpVars == <<maxHits, hits, admitted, req, last, arrivals>>
storeVars == <<dbLoaded, collection, dirty>>
saveVars == <<disk, savePending, saveSnapshot, saveCbs, throttledCbs, timeouts>>
lifeVars == <<useLocalTunnel, srv, listening, handlers, intervals, closing, exit,
              signals, faults, drainLog, drainFrom>>
jobVars == <<jobs, stale, acked>>
vars == <<httpVars, storeVars, saveVars, lifeVars, jobVars, setup>>

\* ------------------------------------------------------------- helpers
Prefix(s, n) == SubSeq(s, 1, n)

\* a free request slot. counted: the limiter keys whose counters the request
\* has incremented, in order; cfg: the configuration the handler handed to the provider
\* registry, the orchestrator or the download resolver
IdleReq ==
  [pc |-> "idle", route |-> "none", method |-> "none", ip |-> "none",
   cf |-> NoHeader, clientIp |-> Undefined, opened |-> FALSE,
   counted |-> <<>>, cfg |-> "none"]

\* no exchange ended in the last step
NoExchange ==
  [route |-> "none", method |-> "none", status |-> 0, kind |-> "none",
   streams |-> <<>>, location |-> "none", rejectedAt |-> "none",
   opened |-> FALSE, admitted |-> FALSE, outcome |-> "none", err |-> "none",
   resolved |-> <<>>, appended |-> <<>>, storeFailed |-> FALSE, job |-> "none",
   cfg |-> "none", pathname |-> <<>>, search |-> <<>>, logged |-> <<>>]

\* the exchange of request q as it enters a handler
Exchange(q) ==
  [NoExchange EXCEPT !.route = q.route, !.method = q.method, !.opened = q.opened,
                     !.cfg = q.cfg]

InFlight == {r \in ReqIds : req[r].pc # "idle"}
Alive == exit = "none"

\* ------------------------------------------------- responses (res.*)
\* respond(res, data) / res.json(data): a 200 JSON body {streams: [...]}
RespondStreams(x, list) ==
  [x EXCEPT !.status = 200, !.kind = "streams", !.streams = list]

\* res.redirect(target): 302 with a Location header
Redirect(x, target) ==
  [x EXCEPT !.status = 302, !.kind = "redirect", !.location = target]

\* res.status(code).json(...) when req.xhr, res.status(code).send(text) otherwise
SendStatus(x, code, xhr) ==
  [x EXCEPT !.status = code, !.kind = IF xhr THEN "json" ELSE "text"]

\* the 404 middleware that ends the chain
NotFound(x, xhr) == SendStatus(x, 404, xhr)

\* the error-handling middleware: reached through next(err)
ErrorMiddleware(x, xhr) == SendStatus(x, 500, xhr)

\* ------------------------------------------------- rate limiter
\* keyGenerator: (req) => req.clientIp || req.ip
KeyGenerator(q) == IF q.clientIp # Undefined THEN q.clientIp ELSE q.ip

\* the limiter rejects when the key's hit count, this request included, exceeds max
OverLimit(key) == hits[key] + 1 > maxHits

\* handler: reads req.route.path. routePath is req.route's path where the limiter
\* runs: under app.use(limiter) no route has matched yet and req.route is
\* undefined, so the property read throws a TypeError, which express-rate-limit
\* passes to next(err) and the error-handling middleware answers.
RateLimitHandler(x, routePath, xhr) ==
  IF routePath = Undefined THEN ErrorMiddleware(x, xhr)
  ELSE IF routePath = StreamPath THEN RespondStreams(x, <<Synthetic>>)
  ELSE [x EXCEPT !.status = 429, !.kind = "text"]

\* the middleware that sets req.clientIp from CF-Connecting-IP or req.ip
ClientIpMiddleware(q) ==
  [q EXCEPT !.clientIp = IF q.cf # NoHeader THEN q.cf ELSE q.ip]

\* ------------------------------------------------- download handler
\* a switch whose NOT_PREMIUM case falls through to the default
DownloadErrorRedirect_Fallthrough(msg) ==
  CASE msg = "NOT_READY" -> "/videos/not_ready.mp4"
    [] msg = "EXPIRED_API_KEY" -> "/videos/expired_api_key.mp4"
    [] msg = "ACCESS_DENIED" -> "/videos/access_denied.mp4"
    [] msg = "TWO_FACTOR_AUTH" -> "/videos/two_factor_auth.mp4"
    [] OTHER -> "/videos/error.mp4"

\* the switch on err.message in the download handler's catch block
DownloadErrorRedirect(msg) ==
  CASE msg = "NOT_READY" -> "/videos/not_ready.mp4"
    [] msg = "EXPIRED_API_KEY" -> "/videos/expired_api_key.mp4"
    [] msg = "NOT_PREMIUM" -> "/videos/not_premium.mp4"
    [] msg = "ACCESS_DENIED" -> "/videos/access_denied.mp4"
    [] msg = "TWO_FACTOR_AUTH" -> "/videos/two_factor_auth.mp4"
    [] OTHER -> "/videos/error.mp4"

\* the catch block of the download handler
DownloadCatch(x, msg) ==
  Redirect([x EXCEPT !.err = msg, !.outcome = "threw"], DownloadErrorRedirect(msg))

\* a value of n characters, each named by its position
Chars(n) == [i \in 1..n |-> i]

\* the six asterisks cut puts between the two ends (no character is named 0)
Mask == <<0, 0, 0, 0, 0, 0>>

\* cut: value ? `${value.substr(0, 5)}******${value.substr(-5)}` : ''
Cut(value) ==
  LET n == Len(value)
      from == IF n > CutKeep THEN n - CutKeep + 1 ELSE 1
  IN IF n = 0 THEN <<>>
     ELSE SubSeq(value, 1, IF n > CutKeep THEN CutKeep ELSE n) \o Mask
            \o SubSeq(value, from, n)

\* the download handler after `await jackettio.getDownload(...)`: the URL is
\* parsed (new URL throws on a string that is no URL), the line
\* `Redirect: protocol//host cut(pathname) cut(search)` is logged, each part
\* one element of `logged`, and the response redirects to the URL
DownloadHandlerBody(x, threw, msg, urlValid, pathname, search) ==
  IF threw THEN DownloadCatch(x, msg)
  ELSE IF ~urlValid THEN DownloadCatch(x, "InvalidURL")
  ELSE Redirect([x EXCEPT !.outcome = "returned", !.pathname = pathname,
                          !.search = search,
                          !.logged = <<Cut(pathname), Cut(search)>>],
                "resolvedUrl")

\* ------------------------------------------------- stream handler
\* jackettio.getStreams (lib/jackettio.js): an indexer failure degrades to no
\* candidates, a provider failure ends in a thrown error or an empty list
GetStreamsOutcomes(indexerFails, providerFails, resolved) ==
  IF ~indexerFails /\ ~providerFails
  THEN {[threw |-> FALSE, streams |-> resolved]}
  ELSE {[threw |-> FALSE, streams |-> <<>>], [threw |-> TRUE, streams |-> <<>>]}

\* db.getCollection("streams") and streams.forEach(stream => collection.insert(stream)):
\* with no collection the first insert throws a TypeError; failAt > 0 is the index
\* of the document whose insert throws. The documents before it are inserted.
InsertAll(list, available, failAt) ==
  IF list = <<>> THEN [inserted |-> <<>>, threw |-> FALSE]
  ELSE IF ~available THEN [inserted |-> <<>>, threw |-> TRUE]
  ELSE IF failAt \in 1..Len(list)
       THEN [inserted |-> Prefix(list, failAt - 1), threw |-> TRUE]
       ELSE [inserted |-> list, threw |-> FALSE]

\* the body of the stream handler after `await jackettio.getStreams(...)`
StreamHandlerBody(x, o, ins) ==
  LET x1 == [x EXCEPT !.outcome = IF o.threw THEN "threw" ELSE "returned",
                      !.resolved = o.streams,
                      !.appended = IF o.threw THEN <<>> ELSE ins.inserted,
                      !.storeFailed = ~o.threw /\ ins.threw]
  IN IF o.threw \/ ins.threw
     THEN RespondStreams(x1, <<>>)         \* catch(err): respond {streams: []}
     ELSE RespondStreams(x1, o.streams)    \* respond(res, {streams})

\* ------------------------------------------------- user configuration
\* JSON.parse(Buffer.from(req.params.userConfig, 'base64').toString()): throws
\* a SyntaxError on text that is no JSON and returns any other JSON value as it
\* is, mapping or not, with every key the client sent
UserConfigParse(blob) ==
  CASE blob = "malformed" -> [threw |-> TRUE, value |-> "none"]
    [] blob = "null" -> [threw |-> FALSE, value |-> "null"]
    [] blob = "scalar" -> [threw |-> FALSE, value |-> "scalar"]
    [] blob = "immutable" -> [threw |-> FALSE, value |-> "clientKey"]
    [] blob = "noProvider" -> [threw |-> FALSE, value |-> "noProvider"]
    [] OTHER -> [threw |-> FALSE, value |-> "mapping"]

\* Object.assign(userConfig, {ip: req.clientIp}): throws a TypeError on null,
\* and sets ip on any other value (a number or a string is wrapped in an object)
AssignIp(parsed) ==
  IF parsed.threw \/ parsed.value = "null"
  THEN [threw |-> TRUE, value |-> "none"]
  ELSE parsed

\* debrid.instance(userConfig) (lib/debrid.js): the provider the configuration
\* names, or a thrown error when it names none
DebridInstance(value) == [threw |-> value \notin {"mapping", "clientKey"}]

\* ------------------------------------------------- request pipeline
\* Inputs of a step that the step does not read are held at one value, so that
\* equal steps are not counted twice.
\* req.xhr is read by the 404 and the error-handling middleware only
RequestReads(ip, xhr) == ~OverLimit(ip) => ~xhr

\* the stream route is a GET route and never reads req.xhr; the download
\* handler reads the blob only for GET and HEAD, and a request it passes on
\* ends in the 404 middleware, as does a request for any other path
RouteReads(route, method, blob, xhr) ==
  CASE route = "stream" -> method = "GET" /\ ~xhr /\ blob # "absent"
    [] route = "download" -> /\ blob # "absent"
                             /\ IF method \in {"GET", "HEAD"} THEN ~xhr ELSE blob = "valid"
    [] route = "manifest" -> method = "GET" /\ ~xhr
    [] OTHER -> method = "GET" /\ blob = "valid"

\* the list getStreams would have resolved is read only if nothing failed, and
\* the failing insert is one of the list's
ResumeReads(indexerFails, providerFails, resolved, failAt) ==
  /\ failAt <= Len(resolved)
  /\ (indexerFails \/ providerFails => resolved = <<>>)

\* the lowest free slot takes the next request
FreeSlot(r) ==
  /\ req[r].pc = "idle"
  /\ \A s \in ReqIds : s < r => req[s].pc # "idle"

\* A request arrives and runs the chain up to express.static: app.use(limiter),
\* where req.clientIp is not yet set and no route has matched, then the
\* middleware that sets req.clientIp. A request for a route that carries no
\* limiter of its own is admitted here. xhr is read only if the limiter rejects.
Request(r, route, ip, cf, xhr) ==
  /\ Alive /\ listening
  /\ FreeSlot(r)
  /\ arrivals < MaxArrivals
  /\ RequestReads(ip, xhr)
  /\ LET q0 == [IdleReq EXCEPT !.route = route, !.ip = ip, !.cf = cf,
                               !.opened = (hits[ip] = 0)]
         key == KeyGenerator(q0)
         final == route # "stream"
     IN /\ hits' = [hits EXCEPT ![key] = @ + 1]
        /\ IF OverLimit(key)
           THEN /\ last' = RateLimitHandler(
                             [Exchange(q0) EXCEPT !.rejectedAt = "global"], Undefined, xhr)
                /\ UNCHANGED <<req, admitted>>
           ELSE /\ req' = [req EXCEPT ![r] = [ClientIpMiddleware(q0) EXCEPT
                                                !.pc = "static", !.counted = <<key>>]]
                /\ admitted' = IF final THEN [admitted EXCEPT ![key] = @ + 1]
                               ELSE admitted
                /\ last' = NoExchange
  /\ arrivals' = arrivals + 1
  /\ UNCHANGED <<setup, jobVars, maxHits, storeVars, saveVars, lifeVars>>

\* express.static found no file: the router dispatches the request; the method,
\* the userConfig blob and req.xhr are first read here.
\*  stream:   the route's own limiter, then the handler up to `await getStreams`
\*            (JSON.parse of a malformed blob throws into the catch block);
\*  download: the method test, then the handler up to `await getDownload`;
\*  other:    the 404 middleware.
Route(r, method, blob, xhr) ==
  /\ Alive
  /\ req[r].pc = "static"
  /\ RouteReads(req[r].route, method, blob, xhr)
  /\ LET q == req[r]
         key == KeyGenerator(q)
         x == [Exchange(q) EXCEPT !.method = method, !.admitted = TRUE]
         pend(pc, cfg) == [IdleReq EXCEPT !.pc = pc, !.route = q.route, !.method = method,
                                          !.opened = q.opened, !.cfg = cfg,
                                          !.counted = IF q.route = "stream"
                                                      THEN Append(q.counted, key)
                                                      ELSE q.counted]
         parsed == UserConfigParse(blob)
         config == AssignIp(parsed)
     IN CASE q.route = "stream" ->
               /\ hits' = [hits EXCEPT ![key] = @ + 1]
               /\ IF OverLimit(key)
                  THEN /\ last' = RateLimitHandler(
                                    [x EXCEPT !.rejectedAt = "route", !.admitted = FALSE],
                                    StreamPath, xhr)
                       /\ req' = [req EXCEPT ![r] = IdleReq]
                       /\ admitted' = admitted
                  ELSE /\ admitted' = [admitted EXCEPT ![key] = @ + 1]
                       /\ IF config.threw
                          THEN /\ last' = RespondStreams([x EXCEPT !.outcome = "threw"], <<>>)
                               /\ req' = [req EXCEPT ![r] = IdleReq]
                          ELSE /\ last' = NoExchange
                               /\ req' = [req EXCEPT ![r] = pend("getStreams", config.value)]
          [] q.route = "download" ->
               /\ IF method \notin {"GET", "HEAD"}
                  THEN /\ last' = NotFound(x, xhr)
                       /\ req' = [req EXCEPT ![r] = IdleReq]
                  ELSE IF config.threw
                  THEN /\ last' = DownloadCatch(x, IF parsed.threw THEN "SyntaxError"
                                                                   ELSE "TypeError")
                       /\ req' = [req EXCEPT ![r] = IdleReq]
                  ELSE /\ last' = NoExchange
                       /\ req' = [req EXCEPT ![r] = pend("getDownload", config.value)]
               /\ UNCHANGED <<hits, admitted>>
          [] q.route = "manifest" ->
               \* no userConfig: the plain manifest. Otherwise the handler, which
               \* has no try block, parses the blob and calls debrid.instance: a
               \* throw rejects the handler's promise, which nothing but the
               \* unhandledRejection handler sees, and no response is sent.
               /\ IF blob = "absent"
                  THEN /\ last' = [x EXCEPT !.status = 200, !.kind = "manifest"]
                       /\ req' = [req EXCEPT ![r] = IdleReq]
                  ELSE IF parsed.threw
                  THEN /\ last' = NoExchange
                       /\ req' = [req EXCEPT ![r] = pend("hung", "none")]
                  ELSE IF DebridInstance(parsed.value).threw
                  THEN /\ last' = NoExchange
                       /\ req' = [req EXCEPT ![r] = pend("hung", parsed.value)]
                  ELSE /\ last' = [x EXCEPT !.status = 200, !.kind = "manifest",
                                            !.cfg = parsed.value]
                       /\ req' = [req EXCEPT ![r] = IdleReq]
               /\ UNCHANGED <<hits, admitted>>
          [] q.route = "icon" ->
               /\ last' = NoExchange
               /\ req' = [req EXCEPT ![r] = pend("getLocation", "none")]
               /\ UNCHANGED <<hits, admitted>>
          [] q.route = "configure" ->
               /\ last' = NoExchange
               /\ req' = [req EXCEPT ![r] = pend("debridList", "none")]
               /\ UNCHANGED <<hits, admitted>>
          [] OTHER ->
               /\ last' = NotFound(x, xhr)
               /\ req' = [req EXCEPT ![r] = IdleReq]
               /\ UNCHANGED <<hits, admitted>>
  /\ UNCHANGED <<setup, jobVars, maxHits, arrivals, storeVars, saveVars, lifeVars>>

\* `await icon.getLocation()` (the icon route) or `await debrid.list()` (the
\* configure route) settles. The handlers have no try block: a rejection
\* rejects the handler's promise, which nothing but the unhandledRejection
\* handler sees, and no response is sent. Otherwise the file or the page is sent.
AwaitResume(r, ok) ==
  /\ Alive
  /\ req[r].pc \in {"getLocation", "debridList"}
  /\ IF ok
     THEN /\ last' = [Exchange(req[r]) EXCEPT !.admitted = TRUE, !.status = 200,
                                              !.kind = "file", !.outcome = "returned"]
          /\ req' = [req EXCEPT ![r] = IdleReq]
     ELSE /\ last' = NoExchange
          /\ req' = [req EXCEPT ![r].pc = "hung"]
  /\ UNCHANGED <<setup, jobVars, maxHits, hits, admitted, arrivals, storeVars, saveVars,
                 lifeVars>>

\* `await jackettio.getStreams(...)` settles: the rest of the stream handler.
StreamsResume(r, indexerFails, providerFails, resolved, failAt) ==
  /\ Alive
  /\ req[r].pc = "getStreams"
  /\ ResumeReads(indexerFails, providerFails, resolved, failAt)
  /\ \E o \in GetStreamsOutcomes(indexerFails, providerFails, resolved) :
       LET ins == InsertAll(o.streams, dbLoaded, failAt)
           x == [Exchange(req[r]) EXCEPT !.admitted = TRUE]
       IN /\ last' = StreamHandlerBody(x, o, ins)
          /\ collection' = IF o.threw THEN collection ELSE collection \o ins.inserted
          /\ dirty' = (dirty \/ (~o.threw /\ ins.inserted # <<>>))
          /\ acked' = IF o.threw THEN acked ELSE acked \o ins.inserted
  /\ req' = [req EXCEPT ![r] = IdleReq]
  /\ UNCHANGED <<setup, jobs, stale, maxHits, hits, admitted, arrivals, dbLoaded, saveVars, lifeVars>>

\* `await jackettio.getDownload(...)` settles: a URL or a thrown error.
DownloadResume(r, threw, msg, urlValid, pathLen, searchLen) ==
  /\ Alive
  /\ req[r].pc = "getDownload"
  /\ (threw \/ ~urlValid) => (pathLen = 1 /\ searchLen = 0)
  /\ last' = DownloadHandlerBody([Exchange(req[r]) EXCEPT !.admitted = TRUE],
                                 threw, msg, urlValid, Chars(pathLen), Chars(searchLen))
  /\ req' = [req EXCEPT ![r] = IdleReq]
  /\ UNCHANGED <<setup, jobVars, maxHits, hits, admitted, arrivals, storeVars, saveVars, lifeVars>>

\* the limiter's window of one key elapses: the store forgets the key
WindowElapse(k) ==
  /\ Alive
  /\ hits[k] > 0
  /\ hits' = [hits EXCEPT ![k] = 0]
  /\ admitted' = [admitted EXCEPT ![k] = 0]
  /\ last' = NoExchange
  /\ UNCHANGED <<setup, jobVars, maxHits, req, arrivals, storeVars, saveVars, lifeVars>>

\* autoloadCallback: the database file is loaded and "streams" exists
DatabaseInitialize ==
  /\ Alive
  /\ ~dbLoaded
  /\ dbLoaded' = TRUE
  /\ collection' = disk
  /\ last' = NoExchange
  /\ UNCHANGED <<setup, jobVars, dirty, maxHits, hits, admitted, req, arrivals, saveVars, lifeVars>>

\* ------------------------------------------------- stream store saves
\* a drain step is entered in the log the first time it happens
Steps(log) == {log[i] : i \in 1..Len(log)}
Logged(log, step) == IF step \in Steps(log) THEN log ELSE Append(log, step)

\* db.saveDatabase(cb), LokiJS with throttledSaves: while a save is being
\* written the callback is queued for the save that follows it; otherwise the
\* database is serialized now, the dirty flags are cleared and the write starts.
SaveDatabase(cb) ==
  IF savePending
  THEN /\ throttledCbs' = throttledCbs \cup {cb}
       /\ UNCHANGED <<savePending, saveSnapshot, saveCbs, dirty>>
  ELSE /\ savePending' = TRUE
       /\ saveSnapshot' = collection
       /\ saveCbs' = throttledCbs \cup {cb}
       /\ throttledCbs' = {}
       /\ dirty' = FALSE

\* the autosave timer (autosave: true, autosaveInterval: 4000) fires: a dirty
\* database is saved, with no callback
AutosaveTick ==
  /\ Alive
  /\ dirty
  /\ SaveDatabase("auto")
  /\ last' = NoExchange
  /\ UNCHANGED <<setup, jobVars, maxHits, hits, admitted, req, arrivals, dbLoaded, collection,
                 disk, timeouts, lifeVars>>

\* the write of a save ends: the file holds the snapshot, the save's callbacks
\* are scheduled with setTimeout(cb, 1), and queued callbacks start the next save
SaveComplete ==
  /\ Alive
  /\ savePending
  /\ disk' = saveSnapshot
  /\ timeouts' = timeouts \cup (saveCbs \ {"auto"})
  /\ IF throttledCbs # {}
     THEN /\ savePending' = TRUE
          /\ saveSnapshot' = collection
          /\ saveCbs' = throttledCbs
          /\ throttledCbs' = {}
          /\ dirty' = FALSE
     ELSE /\ savePending' = FALSE
          /\ saveSnapshot' = <<>>
          /\ saveCbs' = {}
          /\ UNCHANGED <<throttledCbs, dirty>>
  /\ last' = NoExchange
  /\ UNCHANGED <<setup, jobVars, maxHits, hits, admitted, req, arrivals, dbLoaded, collection, lifeVars>>

\* ------------------------------------------------- startServer
\* lib/cache.js serializes its writers: a call of vacuum or clean runs at once
\* if no other is running and waits otherwise
CacheCall(js) == IF \E c \in CacheJobs : js[c] = "running" THEN "waiting" ELSE "running"

\* the listen callback after the tunnel setup: icon.download(), the timer of
\* cleanTorrentFolder, the first runs of vacuumCache and cleanCache with their
\* timers, and closeGracefully registered for SIGINT and SIGTERM
StartJobs ==
  LET j1 == [jobs EXCEPT !["icon"] = "running"]
      j2 == [j1 EXCEPT !["vacuumCache"] = CacheCall(j1)]
      j3 == [j2 EXCEPT !["cleanCache"] = CacheCall(j2)]
  IN /\ srv' = "running"
     /\ jobs' = j3
     /\ intervals' = JobTimers
     /\ handlers' = TRUE

\* app.listen's callback runs: the server accepts requests. With
\* config.useLocalTunnel the callback waits for localtunnel(...) first.
Listening ==
  /\ Alive
  /\ srv = "binding"
  /\ listening' = TRUE
  /\ IF useLocalTunnel
     THEN srv' = "tunnel" /\ UNCHANGED <<intervals, handlers, jobs>>
     ELSE StartJobs
  /\ last' = NoExchange
  /\ UNCHANGED <<setup, stale, acked, maxHits, hits, admitted, req, arrivals, storeVars, saveVars,
                 useLocalTunnel, closing, exit, signals, faults, drainLog, drainFrom>>

\* `await localtunnel(...)` settles (a rejection is caught and logged)
TunnelSettled ==
  /\ Alive
  /\ srv = "tunnel"
  /\ StartJobs
  /\ last' = NoExchange
  /\ UNCHANGED <<setup, stale, acked, maxHits, hits, admitted, req, arrivals, storeVars, saveVars,
                 useLocalTunnel, listening, closing, exit, signals, faults, drainLog, drainFrom>>

\* a closeGracefully that calls server.close beside saveDatabase, not in its callback
CloseGracefully_CloseBesideSave ==
  /\ intervals' = {}
  /\ SaveDatabase("drain")
  /\ listening' = FALSE
  /\ closing' = TRUE
  /\ drainLog' = Logged(Logged(drainLog, "timers"), "closed")
  /\ drainFrom' = IF "timers" \in Steps(drainLog) THEN drainFrom ELSE collection
  /\ UNCHANGED <<exit, timeouts>>

\* closeGracefully(signal): the job timers are cleared and the database is
\* saved; the rest of the drain runs in the save's callback
CloseGracefully ==
  /\ intervals' = {}
  /\ SaveDatabase("drain")
  /\ drainLog' = Logged(drainLog, "timers")
  /\ drainFrom' = IF "timers" \in Steps(drainLog) THEN drainFrom ELSE collection
  /\ UNCHANGED <<listening, closing, exit, timeouts>>

\* SIGINT or SIGTERM is delivered. With no handler registered the signal's
\* default disposition ends the process at once.
Signal ==
  /\ Alive
  /\ signals < MaxSignals
  /\ signals' = signals + 1
  /\ IF handlers
     THEN CloseGracefully
     ELSE /\ exit' = "signal"
          /\ UNCHANGED <<intervals, listening, closing, drainLog, drainFrom, dirty, saveVars>>
  /\ last' = NoExchange
  /\ UNCHANGED <<setup, jobVars, maxHits, hits, admitted, req, arrivals, dbLoaded, collection, disk,
                 useLocalTunnel, srv, handlers, faults>>

\* the callback closeGracefully gave saveDatabase: server.close(cb) stops the
\* listener; cb runs once no connection is left
DrainSaved ==
  /\ Alive
  /\ "drain" \in timeouts
  /\ timeouts' = timeouts \ {"drain"}
  /\ listening' = FALSE
  /\ closing' = TRUE
  /\ drainLog' = Logged(Logged(drainLog, "flushed"), "closed")
  /\ last' = NoExchange
  /\ UNCHANGED <<setup, jobVars, maxHits, hits, admitted, req, arrivals, storeVars, disk, savePending,
                 saveSnapshot, saveCbs, throttledCbs, useLocalTunnel, srv, handlers,
                 intervals, exit, signals, faults, drainFrom>>

\* server.close's callback: every in-flight request has ended; process.exit(0)
ServerClosed ==
  /\ Alive
  /\ closing
  /\ InFlight = {}
  /\ exit' = "0"
  /\ closing' = FALSE
  /\ drainLog' = Logged(drainLog, "exit")
  /\ last' = NoExchange
  /\ UNCHANGED <<setup, jobVars, maxHits, hits, admitted, req, arrivals, storeVars, saveVars,
                 useLocalTunnel, srv, listening, handlers, intervals, signals, faults,
                 drainFrom>>

\* an exception nobody catches reaches the callback given to
\* process.setUncaughtExceptionCaptureCallback: the database is saved
UncaughtException ==
  /\ Alive
  /\ faults < MaxFaults
  /\ faults' = faults + 1
  /\ SaveDatabase("fault")
  /\ last' = NoExchange
  /\ UNCHANGED <<setup, jobVars, maxHits, hits, admitted, req, arrivals, dbLoaded, collection, disk,
                 timeouts, useLocalTunnel, srv, listening, handlers, intervals,
                 closing, exit, signals, drainLog, drainFrom>>

\* the callback the capture callback gave saveDatabase: process.exit(1)
FaultSaved ==
  /\ Alive
  /\ "fault" \in timeouts
  /\ timeouts' = timeouts \ {"fault"}
  /\ exit' = "1"
  /\ last' = NoExchange
  /\ UNCHANGED <<setup, jobVars, maxHits, hits, admitted, req, arrivals, storeVars, disk, savePending,
                 saveSnapshot, saveCbs, throttledCbs, useLocalTunnel, srv, listening,
                 handlers, intervals, closing, signals, faults, drainLog, drainFrom>>

\* ------------------------------------------------- recurring jobs
\* what a run of vacuumCache does to the "streams" collection. vacuumCache is
\* imported from lib/cache.js and called with no argument; db, and with it the
\* collection, is local to index.js: the run leaves the collection as it is.
\* A vacuum that rebuilt the collection from the database file:
VacuumRun_ReloadsFile(coll, file) == file

VacuumRun(coll, file) == coll

\* what a run of cleanCache does to the "streams" collection, of which the
\* first n documents are older than the retention horizon: cleanCache too is
\* called with no argument and leaves the collection as it is.
CleanRun(coll, n) == coll

\* a job's timer fires (setInterval). A job whose previous run has not ended is
\* not followed here. A callback that throws synchronously raises an uncaught
\* exception, which reaches the capture callback: the database is saved and
\* the process exits (FaultSaved).
JobTick(j, throws) ==
  /\ Alive
  /\ j \in intervals
  /\ jobs[j] = "idle"
  /\ IF throws
     THEN /\ SaveDatabase("fault")
          /\ last' = [NoExchange EXCEPT !.job = j, !.outcome = "threw"]
          /\ UNCHANGED jobs
     ELSE /\ jobs' = [jobs EXCEPT ![j] = IF j \in CacheJobs THEN CacheCall(jobs)
                                                            ELSE "running"]
          /\ last' = NoExchange
          /\ UNCHANGED <<dirty, savePending, saveSnapshot, saveCbs, throttledCbs>>
  /\ UNCHANGED <<setup, stale, acked, maxHits, hits, admitted, req, arrivals, dbLoaded,
                 collection, disk, timeouts, lifeVars>>

\* a waiting run of vacuum or clean starts once no other of the two is running
CacheAcquire(j) ==
  /\ Alive
  /\ j \in CacheJobs
  /\ jobs[j] = "waiting"
  /\ CacheCall(jobs) = "running"
  /\ jobs' = [jobs EXCEPT ![j] = "running"]
  /\ last' = NoExchange
  /\ UNCHANGED <<setup, stale, acked, maxHits, hits, admitted, req, arrivals,
                 storeVars, saveVars, lifeVars>>

\* the promise of a job's run settles. A rejection is logged, by the .catch of
\* the first runs and by the unhandledRejection handler for the runs the
\* timers start, and the process goes on.
JobSettle(j, ok) ==
  /\ Alive
  /\ jobs[j] = "running"
  /\ jobs' = [jobs EXCEPT ![j] = "idle"]
  /\ collection' = CASE ok /\ j = "vacuumCache" -> VacuumRun(collection, disk)
                      [] ok /\ j = "cleanCache" -> CleanRun(collection, stale)
                      [] OTHER -> collection
  /\ last' = [NoExchange EXCEPT !.job = j,
                                !.outcome = IF ok THEN "resolved" ELSE "rejected"]
  /\ UNCHANGED <<setup, stale, acked, maxHits, hits, admitted, req, arrivals, dbLoaded,
                 dirty, saveVars, lifeVars>>

\* time passes: every document appended so far is now older than the
\* retention horizon. A clean run compares the ages when it starts; time that
\* passes during a run is not followed.
HorizonPasses ==
  /\ Alive
  /\ jobs["cleanCache"] # "running"
  /\ stale < Len(acked)
  /\ stale' = Len(acked)
  /\ last' = NoExchange
  /\ UNCHANGED <<setup, jobs, acked, maxHits, hits, admitted, req, arrivals,
                 storeVars, saveVars, lifeVars>>

\* ------------------------------------------------- setup script
\* the retries argument of a call: <<n>> a number, <<>> the argument left out
RetryArgs == {<<n>> : n \in 0..MaxRetries} \cup {<<>>}
\* the error exec hands to its callback: the command exits non-zero, or it is
\* killed when the timeout passes
NoError == "null"
ExecErrors == {"exitCode", "killed"}
\* characters String.prototype.trim removes at both ends
Whitespace == {" ", "\n"}
\* what the command can write to its standard output
StdOuts == {<<>>, <<"o", "k">>, <<" ", "o", " ", "k", "\n">>, <<"\n">>}

RECURSIVE TrimStart(_)
TrimStart(str) ==
  IF str # <<>> /\ Head(str) \in Whitespace THEN TrimStart(Tail(str)) ELSE str

RECURSIVE TrimEnd(_)
TrimEnd(str) ==
  IF str # <<>> /\ str[Len(str)] \in Whitespace
    THEN TrimEnd(SubSeq(str, 1, Len(str) - 1))
    ELSE str

\* stdout.trim()
Trim(str) == TrimEnd(TrimStart(str))

\* what the call resolves with: <<>> is undefined, <<str>> the string str
\* no call of execCommandWithRetry is in progress
NoCall ==
  [pc |-> "none", retries |-> 0, i |-> 0, attempts |-> <<>>, waits |-> 0,
   result |-> <<>>, thrown |-> NoError]

\* the call execCommandWithRetry(command, arg): the parameter takes its default
\* when the argument is left out, the loop starts at i = 0
ExecCommandWithRetry(arg) ==
  [NoCall EXCEPT !.pc = "loop",
                 !.retries = IF arg = <<>> THEN DefaultRetries ELSE arg[1]]

\* the loop test i < retries: the body starts the command, or the loop is over
\* and the function ends without a return statement, resolving with undefined
LoopTest ==
  /\ setup.pc = "loop"
  /\ setup' = IF setup.i < setup.retries
                THEN [setup EXCEPT !.pc = "exec"]
                ELSE [setup EXCEPT !.pc = "returned", !.result = <<>>]
  /\ UNCHANGED <<httpVars, storeVars, saveVars, lifeVars, jobVars>>

\* exec's callback: with an error the promise rejects and the catch block
\* rethrows at the last index, else starts the 10 s wait; without one the
\* function returns the trimmed standard output
ExecCallback(error, stdout) ==
  /\ setup.pc = "exec"
  /\ error # NoError => stdout = <<>>
  /\ LET ran == [setup EXCEPT !.attempts = @ \o <<[error |-> error, stdout |-> stdout]>>]
     IN setup' =
          IF error # NoError
            THEN IF setup.i = setup.retries - 1
                   THEN [ran EXCEPT !.pc = "threw", !.thrown = error]
                   ELSE [ran EXCEPT !.pc = "wait", !.waits = @ + 1]
            ELSE [ran EXCEPT !.pc = "returned", !.result = <<Trim(stdout)>>]
  /\ UNCHANGED <<httpVars, storeVars, saveVars, lifeVars, jobVars>>

\* the 10 s timer fires: the loop goes on with i + 1
WaitElapses ==
  /\ setup.pc = "wait"
  /\ setup' = [setup EXCEPT !.pc = "loop", !.i = @ + 1]
  /\ UNCHANGED <<httpVars, storeVars, saveVars, lifeVars, jobVars>>

\* ------------------------------------------------- specifications
InitHttpVars ==
  /\ maxHits \in 1..MaxLimit
  /\ hits = [k \in Keys |-> 0]
  /\ admitted = [k \in Keys |-> 0]
  /\ req = [r \in ReqIds |-> IdleReq]
  /\ last = NoExchange
  /\ arrivals = 0

InitStore ==
  /\ dbLoaded = FALSE
  /\ collection = <<>>
  /\ dirty = FALSE
  /\ disk = <<>>
  /\ savePending = FALSE
  /\ saveSnapshot = <<>>
  /\ saveCbs = {}
  /\ throttledCbs = {}
  /\ timeouts = {}

\* the setup script is not inside a call of execCommandWithRetry
InitSetup == setup = NoCall

\* no job has run yet
InitJobs ==
  /\ jobs = [j \in JobNames |-> "idle"]
  /\ stale = 0
  /\ acked = <<>>

\* the server in service: listening, jobs scheduled, signal handlers registered
InitServing ==
  /\ InitHttpVars
  /\ InitStore
  /\ useLocalTunnel = FALSE
  /\ srv = "running"
  /\ listening = TRUE
  /\ handlers = TRUE
  /\ intervals = JobTimers
  /\ closing = FALSE
  /\ exit = "none"
  /\ signals = 0
  /\ faults = 0
  /\ drainLog = <<>>
  /\ drainFrom = <<>>
  /\ InitJobs
  /\ InitSetup

NextHttp ==
  \/ \E r \in ReqIds, route \in Routes, ip \in ConnIps, cf \in {NoHeader} \cup Forwarded,
        xhr \in BOOLEAN : Request(r, route, ip, cf, xhr)
  \/ \E r \in ReqIds, m \in Methods, blob \in Blobs, xhr \in BOOLEAN : Route(r, m, blob, xhr)
  \/ \E r \in ReqIds, i, p \in BOOLEAN, res \in StreamLists, failAt \in 0..MaxStreams :
       StreamsResume(r, i, p, res, failAt)
  \/ \E r \in ReqIds, msg \in DebridErrors \cup {"UNCLASSIFIED"} :
       DownloadResume(r, TRUE, msg, FALSE, 1, 0)
  \/ \E r \in ReqIds : DownloadResume(r, FALSE, "none", FALSE, 1, 0)
  \/ \E r \in ReqIds : DownloadResume(r, FALSE, "none", TRUE, MaxUrlPart, 0)
  \/ \E k \in Keys : WindowElapse(k)
  \/ DatabaseInitialize

SpecHttp == InitServing /\ [][NextHttp]_vars

\* the process after the module has been evaluated: app.listen has been called,
\* the database file is being loaded, no signal handler is registered yet
InitBoot ==
  /\ InitHttpVars
  /\ InitStore
  /\ useLocalTunnel \in BOOLEAN
  /\ srv = "binding"
  /\ listening = FALSE
  /\ handlers = FALSE
  /\ intervals = {}
  /\ closing = FALSE
  /\ exit = "none"
  /\ signals = 0
  /\ faults = 0
  /\ drainLog = <<>>
  /\ drainFrom = <<>>
  /\ InitJobs
  /\ InitSetup

\* the lifecycle, with stream requests from one client
NextLife ==
  \/ Listening
  \/ TunnelSettled
  \/ DatabaseInitialize
  \/ \E r \in ReqIds : Request(r, "stream", "ipA", NoHeader, FALSE)
  \/ \E r \in ReqIds : Route(r, "GET", "valid", FALSE)
  \/ \E r \in ReqIds, res \in StreamLists : StreamsResume(r, FALSE, FALSE, res, 0)
  \/ AutosaveTick
  \/ SaveComplete
  \/ Signal
  \/ DrainSaved
  \/ ServerClosed
  \/ UncaughtException
  \/ FaultSaved

SpecLife == InitBoot /\ [][NextLife]_vars

\* the recurring jobs and the store, with stream requests from one client
InitJobsBoot == InitBoot /\ ~useLocalTunnel /\ maxHits = MaxLimit

NextJobs ==
  \/ Listening
  \/ DatabaseInitialize
  \/ \E r \in ReqIds : Request(r, "stream", "ipA", NoHeader, FALSE)
  \/ \E r \in ReqIds : Route(r, "GET", "valid", FALSE)
  \/ \E r \in ReqIds, res \in StreamLists : StreamsResume(r, FALSE, FALSE, res, 0)
  \/ AutosaveTick
  \/ SaveComplete
  \/ \E j \in JobTimers, throws \in BOOLEAN : JobTick(j, throws)
  \/ \E j \in CacheJobs : CacheAcquire(j)
  \/ \E j \in JobNames, ok \in BOOLEAN : JobSettle(j, ok)
  \/ HorizonPasses
  \/ FaultSaved

SpecJobs == InitJobsBoot /\ [][NextJobs]_vars

\* every route and every kind of configuration blob, requests from one client
NextRoutes ==
  \/ \E r \in ReqIds, route \in AllRoutes : Request(r, route, "ipA", NoHeader, FALSE)
  \/ \E r \in ReqIds, m \in {"GET", "POST"}, blob \in ConfigBlobs : Route(r, m, blob, FALSE)
  \/ \E r \in ReqIds, res \in StreamLists : StreamsResume(r, FALSE, FALSE, res, 0)
  \/ \E r \in ReqIds : DownloadResume(r, TRUE, "NOT_READY", FALSE, 1, 0)
  \/ \E r \in ReqIds, pathLen \in 1..MaxUrlPart, searchLen \in 0..MaxUrlPart :
       DownloadResume(r, FALSE, "none", TRUE, pathLen, searchLen)
  \/ \E r \in ReqIds, ok \in BOOLEAN : AwaitResume(r, ok)
  \/ \E k \in Keys : WindowElapse(k)
  \/ DatabaseInitialize

SpecRoutes == InitServing /\ [][NextRoutes]_vars


\* the setup script entering execCommandWithRetry, before it spawns the
\* server: every value of the retries argument, the argument left out included
InitRetry ==
  /\ InitHttpVars
  /\ maxHits = MaxLimit
  /\ InitStore
  /\ useLocalTunnel = FALSE
  /\ srv = "off"
  /\ listening = FALSE
  /\ handlers = FALSE
  /\ intervals = {}
  /\ closing = FALSE
  /\ exit = "none"
  /\ signals = 0
  /\ faults = 0
  /\ drainLog = <<>>
  /\ drainFrom = <<>>
  /\ InitJobs
  /\ setup \in {ExecCommandWithRetry(arg) : arg \in RetryArgs}

NextRetry ==
  \/ LoopTest
  \/ \E error \in ExecErrors \cup {NoError}, stdout \in StdOuts : ExecCallback(error, stdout)
  \/ WaitElapses

SpecRetry == InitRetry /\ [][NextRetry]_vars

\* the whole program: every route, with the lifecycle
Init == InitBoot
Next == NextHttp \/ NextLife \/ NextJobs \/ NextRoutes \/ NextRetry
Spec == Init /\ [][Next]_vars

\* ------------------------------------------------- claims
IsPrefix(s, u) == Len(s) <= Len(u) /\ SubSeq(u, 1, Len(s)) = s

\* C1: every request to the configured stream route is answered with a JSON
\* body holding a `streams` array (possibly empty), never with an HTTP 5xx.
C1_StreamNeverFails ==
  (last.route = "stream" /\ last.status # 0) =>
    (last.status = 200 /\ last.kind = "streams")

\* C2: a GET or HEAD download request whose resolution fails is redirected: to
\* the canned video of the error for each of the five classified debrid errors,
\* to /videos/error.mp4 for any other failure.
C2_DownloadFailureRedirects ==
  (last.route = "download" /\ last.outcome = "threw") =>
    /\ last.method \in {"GET", "HEAD"}
    /\ last.status = 302 /\ last.kind = "redirect"
    /\ (last.err = "NOT_READY" => last.location = "/videos/not_ready.mp4")
    /\ (last.err = "EXPIRED_API_KEY" => last.location = "/videos/expired_api_key.mp4")
    /\ (last.err = "NOT_PREMIUM" => last.location = "/videos/not_premium.mp4")
    /\ (last.err = "ACCESS_DENIED" => last.location = "/videos/access_denied.mp4")
    /\ (last.err = "TWO_FACTOR_AUTH" => last.location = "/videos/two_factor_auth.mp4")
    /\ (last.err \notin DebridErrors => last.location = "/videos/error.mp4")

\* C2 witness: a download whose provider raised NOT_READY was redirected to
\* /videos/not_ready.mp4
C2_Witness ==
  /\ last.route = "download" /\ last.outcome = "threw" /\ last.err = "NOT_READY"
  /\ last.location = "/videos/not_ready.mp4"

\* C3: a request the rate limiter rejects is answered, at either mount of the
\* limiter, with HTTP 200 and a `streams` array of exactly the one synthetic
\* entry if it targets the stream route, and with the rate-limit status code
\* (429) and a textual reason otherwise.
C3_RateLimitShape ==
  last.rejectedAt # "none" =>
    IF last.route = "stream"
    THEN last.status = 200 /\ last.kind = "streams" /\ last.streams = <<Synthetic>>
    ELSE last.status = 429 /\ last.kind = "text"

\* C4: for every key and maximum N, no more than N requests of the key are
\* admitted within one window, and the first request of a key whose window has
\* elapsed (or never began) is admitted.
C4_WindowAdmission ==
  /\ \A k \in Keys : admitted[k] <= maxHits
  /\ (last.status # 0 /\ last.opened) => last.admitted

\* C5: on a termination signal the drain steps happen in this order: the job
\* timers are stopped, the store flush completes (the file holds at least what
\* the collection held when the drain began), the listener stops accepting, the
\* in-flight requests end, and only then the process exits with status 0.
DrainSteps == <<"timers", "flushed", "closed", "exit">>
C6_SignalAlwaysDrains == exit = "signal" => ~listening

\* C7: an uncaught fault runs the same drain as a termination signal before the
\* process exits with a non-zero status: job timers stopped, store flushed,
\* listener closed, in-flight requests ended.
C7_FaultDrains ==
  exit = "1" =>
    /\ intervals = {}
    /\ ~listening
    /\ InFlight = {}
    /\ IsPrefix(collection, disk)

\* C8: at a graceful exit every document a request handler appended to the
\* collection before the exit is in the database file.
C8_NothingLost == exit = "0" => IsPrefix(collection, disk)

\* C9: a failure of the stream store during a stream request does not change
\* the response: the caller receives the list the orchestrator resolved.
C9_StoreFailureInvisible ==
  (last.route = "stream" /\ last.storeFailed) => last.streams = last.resolved

\* C10: the documents a stream request appends to the store are exactly the
\* streams it returns, in the same order.
C10_AppendedEqualsReturned ==
  (last.route = "stream" /\ last.status # 0 /\ last.rejectedAt = "none") =>
    last.appended = last.streams

\* C11: vacuum, clean and the store flush are mutually exclusive and exclusive
\* with appends: no two of them are in progress at once, and no request appends
\* to the collection while one of them is in progress.
StoreOps ==
  {j \in CacheJobs : jobs[j] = "running"}
    \cup (IF savePending /\ saveCbs \cap {"auto", "drain"} # {} THEN {"flush"} ELSE {})

C11_SingleWriter ==
  /\ Cardinality(StoreOps) <= 1
  /\ (last.appended # <<>> => StoreOps = {})

\* C12: whatever vacuum runs interleave with the appends, the collection holds
\* every acknowledged document exactly once: it is a suffix of the documents
\* acknowledged so far, in order, and lacks none that is within the horizon.
IsSuffix(s, u) == Len(s) <= Len(u) /\ SubSeq(u, Len(u) - Len(s) + 1, Len(u)) = s

C13_CleanExpires ==
  (last.job = "cleanCache" /\ last.outcome = "resolved") =>
    collection = SubSeq(acked, stale + 1, Len(acked))

\* C14: a failed run of a recurring job, whether it threw synchronously or its
\* promise was rejected, never ends the process, and the job's timer is set
\* for its next tick (unless a drain has cleared the timers). The only
\* uncaught exceptions of SpecJobs are those the jobs throw.
C14_JobsFaultTolerant ==
  /\ exit # "1"
  /\ (last.job # "none" /\ last.outcome \in {"threw", "rejected"}) =>
       (last.job \in intervals \/ "timers" \in Steps(drainLog))

\* C15: every rate-limit counter that a request carrying the CF-Connecting-IP
\* header increments is keyed by the forwarded address, not by the address of
\* the connection.
C15_ForwardedKey ==
  \A r \in ReqIds :
    req[r].cf # NoHeader =>
      \A i \in DOMAIN req[r].counted : req[r].counted[i] = req[r].cf

\* C16: one counter per client, equal to the number of requests the client has
\* made in the window. The counters change only by the requests' increments
\* and by the reset at the end of a window, so this holds exactly if every
\* request past the limiter has incremented one counter, once, whatever its
\* route.
C16_CountsRequests ==
  \A r \in ReqIds : req[r].pc # "idle" => Len(req[r].counted) = 1

\* C17: a configuration blob that is not base64 of a JSON mapping is never
\* applied: no orchestrator or resolver call is pending with what it decoded
\* to, and no manifest is built from a provider instantiated from it.
C17_MalformedRejected ==
  /\ \A r \in ReqIds :
       req[r].pc \in {"getStreams", "getDownload"} => req[r].cfg \notin {"scalar", "null"}
  /\ (last.kind = "manifest" => last.cfg \notin {"scalar", "null"})

\* C18: the configuration handed to the provider registry, the orchestrator
\* and the download resolver never carries the client's value of an immutable
\* key.
C18_ImmutableKeysEnforced ==
  /\ \A r \in ReqIds : req[r].cfg # "clientKey"
  /\ last.cfg # "clientKey"

\* C19: the log line of a successful download redirect masks part of the
\* pathname and part of the query string, whatever their length: some character
\* of each (of the query string when there is one) is absent from the line.
Visible(value, line) ==
  \A i \in DOMAIN value : \E k \in DOMAIN line : line[k] = value[i]

C19_RedirectLogMasked ==
  (last.route = "download" /\ last.outcome = "returned") =>
    /\ ~Visible(last.pathname, last.logged[1])
    /\ (last.search # <<>> => ~Visible(last.search, last.logged[2]))

\* C20: no admitted request is left without a response: no handler ends
\* without having sent one.
C20_EveryRequestAnswered == \A r \in ReqIds : req[r].pc # "hung"

\* C21: execCommandWithRetry(command, retries) runs the command at most
\* `retries` times, stops at the first successful attempt and returns its
\* (trimmed) output, waits between attempts but not after the last one, and
\* completes successfully only if some attempt succeeded; after `retries`
\* failed attempts it throws the error of the last attempt, for every
\* retries >= 0.
Succeeded(attempt) == attempt.error = NoError

====
